---- MODULE Spec2Model ----
(***************************************************************************)
(* Model of MQLToAtlasSearchConverter (mql-to-atlas-search.js).            *)
(*                                                                         *)
(* JavaScript values are modelled as uniformly shaped nodes                *)
(*   [t, s, n, kids]                                                       *)
(* t is the JS type tag, s a string payload, n a numeric payload and kids  *)
(* the ordered own properties (objects) or elements (arrays), each a       *)
(* record [k |-> key, v |-> node].  Object key order is insertion order,   *)
(* as Object.entries returns it for non-integer keys.                      *)
(***************************************************************************)
EXTENDS Integers, Sequences, FiniteSets, TLC

\* ------------------------------------------------------------------ bounds
MaxLen == 4
NumDocs == 3
MaxOps == 2
MaxList == 2
MaxSubs == 2
MaxCalls == 2

\* ------------------------------------------------------- JavaScript values
Undef == [t |-> "undef", s |-> "", n |-> 0, kids |-> <<>>]
Null == [t |-> "null", s |-> "", n |-> 0, kids |-> <<>>]
Str(x) == [t |-> "str", s |-> x, n |-> 0, kids |-> <<>>]
Num(x) == [t |-> "num", s |-> "", n |-> x, kids |-> <<>>]
Bool(b) == [t |-> "bool", s |-> "", n |-> IF b THEN 1 ELSE 0, kids |-> <<>>]
KV(key, val) == [k |-> key, v |-> val]
Obj(entries) == [t |-> "obj", s |-> "", n |-> 0, kids |-> entries]
Arr(items) ==
    [t |-> "arr", s |-> "", n |-> 0,
     kids |-> [j \in 1..Len(items) |-> KV(ToString(j - 1), items[j])]]
Obj1(key, val) == Obj(<<KV(key, val)>>)

\* the elements of an array node, as a sequence of nodes
Items(a) == [j \in 1..Len(a.kids) |-> a.kids[j].v]

\* property read o[key]; undefined when absent or when o is a primitive
HasKey(o, key) == o.t = "obj" /\ \E j \in 1..Len(o.kids) : o.kids[j].k = key
Get(o, key) ==
    IF HasKey(o, key)
    THEN o.kids[CHOOSE j \in 1..Len(o.kids) : o.kids[j].k = key].v
    ELSE Undef

\* property write o[key] = val: replaces in place or appends
Set(o, key, val) ==
    IF HasKey(o, key)
    THEN [o EXCEPT !.kids = [j \in 1..Len(o.kids) |->
                IF o.kids[j].k = key THEN KV(key, val) ELSE o.kids[j]]]
    ELSE [o EXCEPT !.kids = Append(o.kids, KV(key, val))]

\* reading a property of null or undefined throws a TypeError
Nullish(v) == v.t \in {"null", "undef"}

\* ToBoolean
Truthy(v) ==
    CASE v.t \in {"undef", "null"} -> FALSE
      [] v.t = "num" -> v.n # 0
      [] v.t = "bool" -> v.n = 1
      [] v.t = "str" -> v.s # ""
      [] OTHER -> TRUE

\* new Date(x)
Date(x) == [t |-> "date", s |-> x, n |-> 0, kids |-> <<>>]

\* typeof v === 'object'
TypeofObject(v) == v.t \in {"obj", "arr", "null", "date", "regexp"}

\* Object.entries / Object.keys of a non-nullish value (strings are atomic in
\* this model and are not used where the code enumerates a value's keys)
ObjectEntries(v) == IF v.t \in {"obj", "arr"} THEN v.kids ELSE <<>>

\* ----------------------------------------------------- converter results
\* Every converter method returns [err, val, warn]: err is TRUE when the call
\* throws, val is the returned value, warn the console.warn calls it made.
Ok(val, warn) == [err |-> FALSE, val |-> val, warn |-> warn]
Thrown(warn) == [err |-> TRUE, val |-> <<>>, warn |-> warn]

W_SORT == "complex sort"
W_ARRAY == "multi-element array"
W_OPERATOR == "unsupported operator"

\* field.startsWith('$'): strings are atomic here, so the test is membership
\* in the set of all '$'-prefixed keys that occur in the model's inputs
DollarKeys ==
    {"$and", "$or", "$nor", "$not", "$text", "$eq", "$ne", "$gt", "$gte",
     "$lt", "$lte", "$in", "$nin", "$exists", "$regex", "$options", "$size",
     "$meta", "$match", "$sort", "$limit", "$skip", "$project", "$unwind",
     "$search", "$invalidOp", "$invalidFieldOp"}
startsWithDollar(field) == field \in DollarKeys

MustNot(clauses) == Obj1("compound", Obj1("mustNot", Arr(clauses)))
Equals(field, value) ==
    Obj1("equals", Obj(<<KV("path", Str(field)), KV("value", value)>>))
Exists(field) == Obj1("exists", Obj1("path", Str(field)))
\* variant: every bound is written as the inclusive lower bound
Range_gte(field, bound, value) ==
    Obj1("range", Obj(<<KV("path", Str(field)), KV("gte", value)>>))
Range(field, bound, value) ==
    Obj1("range", Obj(<<KV("path", Str(field)), KV(bound, value)>>))
\* variant: $in is written with the equals operator
In_equals(field, value) ==
    Obj1("equals", Obj(<<KV("path", Str(field)), KV("value", value)>>))
In(field, value) ==
    Obj1("in", Obj(<<KV("path", Str(field)), KV("value", value)>>))

\* ------------------------------------------------- convertFieldOperators
\* variant: options is written whenever the key $options is there, the
\* empty string included
regexClause_anyOptions(field, regexValue, flags) ==
    IF flags.t # "undef"
    THEN Obj1("regex", Obj(<<KV("query", regexValue), KV("path", Str(field)),
                             KV("options", flags)>>))
    ELSE Obj1("regex", Obj(<<KV("query", regexValue), KV("path", Str(field))>>))

\* lines 553-569: flags is operators.$options; options = flags || ''
regexClause(field, regexValue, flags) ==
    IF Truthy(IF Truthy(flags) THEN flags ELSE Str(""))
    THEN Obj1("regex", Obj(<<KV("query", regexValue), KV("path", Str(field)),
                             KV("options", IF Truthy(flags) THEN flags ELSE Str(""))>>))
    ELSE Obj1("regex", Obj(<<KV("query", regexValue), KV("path", Str(field))>>))

\* variant: the default case skips the key without console.warn
unsupportedOperator_silent(warn) == warn

\* default: console.warn('Unsupported operator: ... - skipping')
unsupportedOperator(warn) == Append(warn, W_OPERATOR)

RECURSIVE convertFieldOperatorsFrom(_, _, _, _, _, _)
RECURSIVE pushNot(_, _, _, _, _, _)

\* the loop body from entry j on; clauses and regexHandled are the loop's state
convertFieldOperatorsFrom(field, operators, j, clauses, regexHandled, warn) ==
    IF j > Len(ObjectEntries(operators)) THEN Ok(clauses, warn)
    ELSE
      LET operator == ObjectEntries(operators)[j].k
          value == ObjectEntries(operators)[j].v
          next(cs, rh, w) ==
              convertFieldOperatorsFrom(field, operators, j + 1, cs, rh, w)
          push(c) == next(Append(clauses, c), regexHandled, warn)
      IN CASE operator = "$eq" -> push(Equals(field, value))
           [] operator = "$ne" -> push(MustNot(<<Equals(field, value)>>))
           [] operator = "$gt" -> push(Range(field, "gt", value))
           [] operator = "$gte" -> push(Range(field, "gte", value))
           [] operator = "$lt" -> push(Range(field, "lt", value))
           [] operator = "$lte" -> push(Range(field, "lte", value))
           [] operator = "$in" -> push(In(field, value))
           [] operator = "$nin" -> push(MustNot(<<In(field, value)>>))
           [] operator = "$exists" ->
                IF Truthy(value) THEN push(Exists(field))
                ELSE push(MustNot(<<Exists(field)>>))
           [] operator = "$regex" ->
                IF regexHandled THEN next(clauses, regexHandled, warn)
                ELSE
                  IF value.t = "str"
                  THEN next(Append(clauses,
                                   regexClause(field, value,
                                               Get(operators, "$options"))),
                            TRUE, warn)
                  ELSE next(clauses, TRUE, warn)
           [] operator = "$options" -> next(clauses, regexHandled, warn)
           [] operator = "$not" ->
                IF Nullish(value) THEN Thrown(warn)
                ELSE pushNot(field, operators, j, clauses, regexHandled,
                             convertFieldOperatorsFrom(field, value, 1, <<>>,
                                                       FALSE, warn))
           [] OTHER -> next(clauses, regexHandled, unsupportedOperator(warn))

\* variant: the clauses of the wrapped set are pushed as they are
pushNot_unwrapped(field, operators, j, clauses, regexHandled, notClauses) ==
    IF notClauses.err THEN notClauses
    ELSE convertFieldOperatorsFrom(field, operators, j + 1,
                                   clauses \o notClauses.val,
                                   regexHandled, notClauses.warn)

\* case '$not', after the recursive call returned notClauses
pushNot(field, operators, j, clauses, regexHandled, notClauses) ==
    IF notClauses.err THEN notClauses
    ELSE convertFieldOperatorsFrom(field, operators, j + 1,
                                   Append(clauses, MustNot(notClauses.val)),
                                   regexHandled, notClauses.warn)

convertFieldOperators(field, operators, warn) ==
    convertFieldOperatorsFrom(field, operators, 1, <<>>, FALSE, warn)

\* ------------------------------------------------------ convertFieldQuery
\* variant: null is matched by equality alone
nullQuery_equalsOnly(field) == Equals(field, Null)

\* lines 356-377: the clause returned for a null value
nullQuery(field) ==
    Obj1("compound", Obj(<<
        KV("should", Arr(<<Equals(field, Null), MustNot(<<Exists(field)>>)>>)),
        KV("minimumShouldMatch", Num(1))>>))

\* variant: only the empty array is told apart; one element takes the
\* multi-element path
arrayQuery_noSingle(field, value, warn) ==
    IF Len(value.kids) = 0
    THEN Ok(<<MustNot(<<Exists(field)>>)>>, warn)
    ELSE Ok(<<Obj1("compound", Obj1("must",
                Arr([j \in 1..Len(value.kids) |->
                       Equals(field, Items(value)[j])])))>>,
            Append(warn, W_ARRAY))

\* lines 385-425: the clauses returned for an array value
arrayQuery(field, value, warn) ==
    IF Len(value.kids) = 0
    THEN Ok(<<MustNot(<<Exists(field)>>)>>, warn)
    ELSE IF Len(value.kids) = 1
    THEN Ok(<<Equals(field, Items(value)[1])>>, warn)
    ELSE Ok(<<Obj1("compound", Obj1("must",
                Arr([j \in 1..Len(value.kids) |->
                       Equals(field, Items(value)[j])])))>>,
            Append(warn, W_ARRAY))

\* variant: every typeof 'object' value that is not an array is taken for an
\* Operator Set, dates included
convertFieldQuery_noDate(field, value, warn) ==
    IF value.t = "null" THEN Ok(<<nullQuery(field)>>, warn)
    ELSE IF TypeofObject(value) /\ value.t # "arr"
    THEN convertFieldOperators(field, value, warn)
    ELSE IF value.t = "arr" THEN arrayQuery(field, value, warn)
    ELSE Ok(<<Equals(field, value)>>, warn)

convertFieldQuery(field, value, warn) ==
    IF value.t = "null" THEN Ok(<<nullQuery(field)>>, warn)
    ELSE IF value.t = "obj" THEN convertFieldOperators(field, value, warn)
    ELSE IF value.t = "arr" THEN arrayQuery(field, value, warn)
    ELSE Ok(<<Equals(field, value)>>, warn)

\* ------------------------------------- convertQuery / convertLogicalOperator
RECURSIVE convertQueryFrom(_, _, _, _)
RECURSIVE pushClauses(_, _, _, _)
RECURSIVE flatMapConvertQuery(_, _, _, _)
RECURSIVE flatMapPush(_, _, _, _)

\* value.flatMap(subQuery => this.convertQuery(subQuery)), from element j on
flatMapConvertQuery(value, j, clauses, warn) ==
    IF j > Len(value.kids) THEN Ok(clauses, warn)
    ELSE IF Nullish(value.kids[j].v) THEN Thrown(warn)
    ELSE flatMapPush(value, j, clauses,
                     convertQueryFrom(value.kids[j].v, 1, <<>>, warn))

flatMapPush(value, j, clauses, sub) ==
    IF sub.err THEN sub
    ELSE flatMapConvertQuery(value, j + 1, clauses \o sub.val, sub.warn)

\* variant: $or is wrapped in compound.should without minimumShouldMatch
compoundOf_noMinimum(operator, subs) ==
    IF subs.err THEN subs
    ELSE CASE operator = "$and" ->
                Ok(<<Obj1("compound", Obj1("must", Arr(subs.val)))>>, subs.warn)
           [] operator = "$or" ->
                Ok(<<Obj1("compound", Obj1("should", Arr(subs.val)))>>, subs.warn)
           [] operator = "$nor" -> Ok(<<MustNot(subs.val)>>, subs.warn)

\* the compound clause a logical operator returns for its converted list
compoundOf(operator, subs) ==
    IF subs.err THEN subs
    ELSE CASE operator = "$and" ->
                Ok(<<Obj1("compound", Obj1("must", Arr(subs.val)))>>, subs.warn)
           [] operator = "$or" ->
                Ok(<<Obj1("compound", Obj(<<
                        KV("should", Arr(subs.val)),
                        KV("minimumShouldMatch", Num(1))>>))>>, subs.warn)
           [] operator = "$nor" -> Ok(<<MustNot(subs.val)>>, subs.warn)

\* variant: an unsupported logical operator is skipped with a warning, the
\* way an unsupported field operator is
convertLogicalOperator_skip(operator, value, warn) ==
    IF operator \in {"$and", "$or", "$nor"}
    THEN IF value.t # "arr" THEN Thrown(warn)
         ELSE compoundOf(operator, flatMapConvertQuery(value, 1, <<>>, warn))
    ELSE Ok(<<>>, Append(warn, W_OPERATOR))

convertLogicalOperator(operator, value, warn) ==
    IF operator \in {"$and", "$or", "$nor"}
    THEN IF value.t # "arr" THEN Thrown(warn)
         ELSE compoundOf(operator, flatMapConvertQuery(value, 1, <<>>, warn))
    ELSE Thrown(warn)

\* the loop of convertQuery from entry j on
convertQueryFrom(query, j, clauses, warn) ==
    IF j > Len(ObjectEntries(query)) THEN Ok(clauses, warn)
    ELSE pushClauses(query, j, clauses,
             IF startsWithDollar(ObjectEntries(query)[j].k)
             THEN convertLogicalOperator(ObjectEntries(query)[j].k,
                                         ObjectEntries(query)[j].v, warn)
             ELSE convertFieldQuery(ObjectEntries(query)[j].k,
                                    ObjectEntries(query)[j].v, warn))

\* clauses.push(...part)
pushClauses(query, j, clauses, part) ==
    IF part.err THEN part
    ELSE convertQueryFrom(query, j + 1, clauses \o part.val, part.warn)

convertQuery(query, warn) == convertQueryFrom(query, 1, <<>>, warn)

\* ---------------------------------------------------- convertQueryToSearch
\* { index: this.indexName, ...clause }
RECURSIVE assignFrom(_, _, _)
assignFrom(target, source, j) ==
    IF j > Len(ObjectEntries(source)) THEN target
    ELSE assignFrom(Set(target, ObjectEntries(source)[j].k,
                        ObjectEntries(source)[j].v), source, j + 1)

MatchAll(index) ==
    Obj1("$search", Obj(<<KV("index", Str(index)),
                          KV("exists", Obj1("path", Str("_id")))>>))

\* variant: a single clause is wrapped in compound.must like several
searchStageOf_wrapOne(index, searchClauses) ==
    IF searchClauses.err THEN searchClauses
    ELSE IF Len(searchClauses.val) = 0
    THEN Ok(MatchAll(index), searchClauses.warn)
    ELSE Ok(Obj1("$search", Obj(<<
                KV("index", Str(index)),
                KV("compound", Obj1("must", Arr(searchClauses.val)))>>)),
            searchClauses.warn)

\* the $search stage built from the clause list
searchStageOf(index, searchClauses) ==
    IF searchClauses.err THEN searchClauses
    ELSE IF Len(searchClauses.val) = 0
    THEN Ok(MatchAll(index), searchClauses.warn)
    ELSE IF Len(searchClauses.val) = 1
    THEN Ok(Obj1("$search", assignFrom(Obj1("index", Str(index)),
                                       searchClauses.val[1], 1)),
            searchClauses.warn)
    ELSE Ok(Obj1("$search", Obj(<<
                KV("index", Str(index)),
                KV("compound", Obj1("must", Arr(searchClauses.val)))>>)),
            searchClauses.warn)

convertQueryToSearch(index, query, warn) ==
    IF Nullish(query) THEN Thrown(warn)
    ELSE IF Len(ObjectEntries(query)) = 0 THEN Ok(MatchAll(index), warn)
    ELSE searchStageOf(index, convertQuery(query, warn))

\* ------------------------------------------------ convertSortToAtlasSearch
\* variant: stores the bare direction instead of wrapping it in {order}
RECURSIVE convertSortFrom_bare(_, _, _, _)
convertSortFrom_bare(sortSpec, j, searchSort, warn) ==
    IF j > Len(ObjectEntries(sortSpec))
    THEN Ok(IF Len(searchSort.kids) > 0 THEN searchSort ELSE Null, warn)
    ELSE LET field == ObjectEntries(sortSpec)[j].k
             direction == ObjectEntries(sortSpec)[j].v
         IN IF direction.t = "num"
            THEN convertSortFrom_bare(sortSpec, j + 1,
                                      Set(searchSort, field, direction), warn)
            ELSE Ok(Null, Append(warn, W_SORT))

\* the loop over the sort entries from entry j on; Null stands for the
\* null the method returns when the specification cannot be converted
RECURSIVE convertSortFrom(_, _, _, _)
convertSortFrom(sortSpec, j, searchSort, warn) ==
    IF j > Len(ObjectEntries(sortSpec))
    THEN Ok(IF Len(searchSort.kids) > 0 THEN searchSort ELSE Null, warn)
    ELSE LET field == ObjectEntries(sortSpec)[j].k
             direction == ObjectEntries(sortSpec)[j].v
         IN IF direction.t = "num"
            THEN convertSortFrom(sortSpec, j + 1,
                                 Set(searchSort, field, Obj1("order", direction)),
                                 warn)
            ELSE Ok(Null, Append(warn, W_SORT))

convertSortToAtlasSearch(sortSpec, warn) ==
    IF ~Truthy(sortSpec) \/ ~TypeofObject(sortSpec) THEN Ok(Null, warn)
    ELSE convertSortFrom(sortSpec, 1, Obj(<<>>), warn)

\* ----------------------------------------- convertQueryToSearchWithOptions
\* if (searchSort) baseSearch.$search.sort = searchSort
embedSort(baseSearch, searchSort) ==
    IF Truthy(searchSort.val)
    THEN Ok(Set(baseSearch.val, "$search",
                Set(Get(baseSearch.val, "$search"), "sort", searchSort.val)),
            searchSort.warn)
    ELSE Ok(baseSearch.val, searchSort.warn)

\* if (options.sort) ...
withSort(baseSearch, sort) ==
    IF baseSearch.err THEN baseSearch
    ELSE IF Truthy(sort)
    THEN embedSort(baseSearch, convertSortToAtlasSearch(sort, baseSearch.warn))
    ELSE baseSearch

convertQueryToSearchWithOptions(index, query, sort, warn) ==
    withSort(convertQueryToSearch(index, query, warn), sort)

\* ------------------------------------------------ optimizePipelineSequence
NoStage == Null

\* variant: the scan starts at the $match stage itself
Scanning_atMatch(currentIndex) ==
    [err |-> FALSE, sortStage |-> NoStage, limitStage |-> NoStage,
     skipStage |-> NoStage, projectStage |-> NoStage,
     currentIndex |-> currentIndex - 1, remainingStages |-> <<>>]

\* lines 127-132: the locals of the scan
Scanning(currentIndex) ==
    [err |-> FALSE, sortStage |-> NoStage, limitStage |-> NoStage,
     skipStage |-> NoStage, projectStage |-> NoStage,
     currentIndex |-> currentIndex, remainingStages |-> <<>>]

\* pipeline.slice(from), indexes counted from 0
slice(stages, from) == SubSeq(stages, from + 1, Len(stages))

\* the look-ahead loop; stages is the pipeline array's element sequence and
\* currentIndex counts from 0 as in the source
RECURSIVE scanFrom(_, _, _)
scanFrom(stages, options, st) ==
    IF ~(st.currentIndex < Len(stages)) THEN st
    ELSE LET stage == stages[st.currentIndex + 1]
             step(captured) ==
                 scanFrom(stages, options,
                          [captured EXCEPT !.currentIndex = st.currentIndex + 1])
         IN IF Nullish(stage) THEN [st EXCEPT !.err = TRUE]
            ELSE IF Truthy(Get(stage, "$sort")) /\ ~Truthy(st.sortStage)
            THEN step([st EXCEPT !.sortStage = stage])
            ELSE IF Truthy(Get(stage, "$limit")) /\ ~Truthy(st.limitStage)
            THEN step([st EXCEPT !.limitStage = stage])
            ELSE IF Truthy(Get(stage, "$skip")) /\ ~Truthy(st.skipStage)
            THEN step([st EXCEPT !.skipStage = stage])
            ELSE IF /\ Truthy(Get(stage, "$project"))
                    /\ ~Truthy(st.projectStage)
                    /\ Truthy(Get(options, "includeProjection"))
            THEN step([st EXCEPT !.projectStage = stage])
            ELSE [st EXCEPT !.remainingStages = slice(stages, st.currentIndex)]

\* variant: unshifts $limit first, so that $skip ends up in front
unshiftSkipLimit_skipFirst(remainingStages, skipStage, limitStage) ==
    LET withLimit == IF Truthy(limitStage)
                     THEN <<Obj1("$limit", Get(limitStage, "$limit"))>>
                          \o remainingStages
                     ELSE remainingStages
    IN IF Truthy(skipStage)
       THEN <<Obj1("$skip", Get(skipStage, "$skip"))>> \o withLimit
       ELSE withLimit

\* remainingStages.unshift({$skip}) then remainingStages.unshift({$limit})
unshiftSkipLimit(remainingStages, skipStage, limitStage) ==
    LET withSkip == IF Truthy(skipStage)
                    THEN <<Obj1("$skip", Get(skipStage, "$skip"))>>
                         \o remainingStages
                    ELSE remainingStages
    IN IF Truthy(limitStage)
       THEN <<Obj1("$limit", Get(limitStage, "$limit"))>> \o withSkip
       ELSE withSkip

\* the projection unshift, guarded by !options.includeProjection
unshiftProject(remainingStages, projectStage, options) ==
    IF Truthy(projectStage) /\ ~Truthy(Get(options, "includeProjection"))
    THEN <<projectStage>> \o remainingStages
    ELSE remainingStages

NoOptimization ==
    [err |-> FALSE, optimized |-> FALSE, searchStage |-> Undef,
     remainingStages |-> <<>>, nextIndex |-> 0, sortStage |-> NoStage,
     limitStage |-> NoStage, skipStage |-> NoStage, projectStage |-> NoStage,
     warn |-> <<>>]

\* variant: a captured $limit is written into the $search stage and not put
\* back as a stage
optimizationOf_embedLimit(sc, options, search) ==
    IF search.err THEN [NoOptimization EXCEPT !.err = TRUE, !.warn = search.warn]
    ELSE [err |-> FALSE, optimized |-> TRUE,
          searchStage |->
              IF Truthy(sc.limitStage)
              THEN Set(search.val, "$search",
                       Set(Get(search.val, "$search"), "limit",
                           Get(sc.limitStage, "$limit")))
              ELSE search.val,
          remainingStages |->
              unshiftProject(
                  unshiftSkipLimit(sc.remainingStages, sc.skipStage, NoStage),
                  sc.projectStage, options),
          nextIndex |-> sc.currentIndex,
          sortStage |-> sc.sortStage, limitStage |-> sc.limitStage,
          skipStage |-> sc.skipStage, projectStage |-> sc.projectStage,
          warn |-> search.warn]

\* lines 162-180: the result, given the scan's locals sc and the search stage
optimizationOf(sc, options, search) ==
    IF search.err THEN [NoOptimization EXCEPT !.err = TRUE, !.warn = search.warn]
    ELSE [err |-> FALSE, optimized |-> TRUE,
          searchStage |-> search.val,
          remainingStages |->
              unshiftProject(
                  unshiftSkipLimit(sc.remainingStages, sc.skipStage,
                                   sc.limitStage),
                  sc.projectStage, options),
          nextIndex |-> sc.currentIndex,
          sortStage |-> sc.sortStage, limitStage |-> sc.limitStage,
          skipStage |-> sc.skipStage, projectStage |-> sc.projectStage,
          warn |-> search.warn]

\* lines 157-160: the search stage is built after the scan, with the
\* captured sort (sortStage?.$sort)
afterScan(index, query, options, warn, sc) ==
    IF sc.err THEN [NoOptimization EXCEPT !.err = TRUE, !.warn = warn]
    ELSE optimizationOf(sc, options,
             convertQueryToSearchWithOptions(index, query,
                                             Get(sc.sortStage, "$sort"), warn))

optimizePipelineSequence(index, stages, startIndex, options, warn) ==
    IF ~Truthy(Get(stages[startIndex + 1], "$match"))
    THEN [NoOptimization EXCEPT !.warn = warn]
    ELSE afterScan(index, Get(stages[startIndex + 1], "$match"), options, warn,
                   scanFrom(stages, options, Scanning(startIndex + 1)))

\* -------------------------------------------------------- convertFindQuery
\* variant: $limit is pushed before $skip
pushDirectives_limitFirst(searchStage, options) ==
    IF searchStage.err THEN searchStage
    ELSE Ok(((<<searchStage.val>>
              \o (IF Truthy(Get(options, "projection"))
                  THEN <<Obj1("$project", Get(options, "projection"))>> ELSE <<>>))
              \o (IF Truthy(Get(options, "limit"))
                  THEN <<Obj1("$limit", Get(options, "limit"))>> ELSE <<>>))
              \o (IF Truthy(Get(options, "skip"))
                  THEN <<Obj1("$skip", Get(options, "skip"))>> ELSE <<>>),
            searchStage.warn)

\* the pushes after the search stage, the same in both branches:
\* $project, then $skip, then $limit, each when its option is truthy
pushDirectives(searchStage, options) ==
    IF searchStage.err THEN searchStage
    ELSE Ok(((<<searchStage.val>>
              \o (IF Truthy(Get(options, "projection"))
                  THEN <<Obj1("$project", Get(options, "projection"))>>
                  ELSE <<>>))
              \o (IF Truthy(Get(options, "skip"))
                  THEN <<Obj1("$skip", Get(options, "skip"))>> ELSE <<>>))
              \o (IF Truthy(Get(options, "limit"))
                  THEN <<Obj1("$limit", Get(options, "limit"))>> ELSE <<>>),
            searchStage.warn)

convertFindQuery(index, filter, options, warn) ==
    IF Truthy(Get(options, "sort"))
    THEN pushDirectives(
             convertQueryToSearchWithOptions(index, filter,
                                             Get(options, "sort"), warn),
             options)
    ELSE pushDirectives(convertQueryToSearch(index, filter, warn), options)

\* ------------------------------------- createTextSearch / createAutocomplete
\* a parameter's default value stands in for undefined
defaultTo(argument, value) == IF argument.t = "undef" THEN value ELSE argument

\* variant: the stage names the default index and not this.indexName
createTextSearch_default(index, searchText, path, options) ==
    Obj1("$search", Obj(<<
        KV("index", Str("default")),
        KV("text", assignFrom(Obj(<<KV("query", searchText),
                                    KV("path", defaultTo(path, Str("*")))>>),
                              defaultTo(options, Obj(<<>>)), 1))>>))

createTextSearch(index, searchText, path, options) ==
    Obj1("$search", Obj(<<
        KV("index", Str(index)),
        KV("text", assignFrom(Obj(<<KV("query", searchText),
                                    KV("path", defaultTo(path, Str("*")))>>),
                              defaultTo(options, Obj(<<>>)), 1))>>))

createAutocomplete(index, query, path, options) ==
    Obj1("$search", Obj(<<
        KV("index", Str(index)),
        KV("autocomplete", assignFrom(Obj(<<KV("query", query), KV("path", path)>>),
                                      defaultTo(options, Obj(<<>>)), 1))>>))

\* ------------------------------------------------------------------ inputs
MatchActive == Obj1("$match", Obj1("status", Str("active")))
MatchNot == Obj1("$match", Obj1("$not", Obj1("status", Str("active"))))
SortNumeric ==
    Obj1("$sort", Obj(<<KV("category", Num(1)), KV("price", Num(-1))>>))
SortMeta ==
    Obj1("$sort", Obj(<<KV("price", Num(1)),
                        KV("score", Obj1("$meta", Str("textScore")))>>))
Limit2 == Obj1("$limit", Num(2))
Skip1 == Obj1("$skip", Num(1))
Skip0 == Obj1("$skip", Num(0))
Project == Obj1("$project", Obj1("name", Num(1)))
Unwind == Obj1("$unwind", Str("$tags"))
\* a stage that an earlier conversion produced
Translated == MatchAll("default")

\* stage objects
StageObjects ==
    {MatchActive, MatchNot, SortNumeric, SortMeta, Limit2, Skip1, Skip0,
     Project, Unwind, Translated}
\* array elements that are not stage objects
NonStages == {Str("x"), Null}

Pipelines ==
    {Arr(p) : p \in UNION {[1..n -> StageObjects \cup NonStages] : n \in 0..MaxLen}}
NonArrays == {Str("invalid"), Null, MatchActive}
\* pipelines of the stages that steer the loop and the scan
LoopStages == {MatchActive, MatchNot, SortNumeric, Unwind, Null}
LoopPipelines ==
    {Arr(p) : p \in UNION {[1..n -> LoopStages] : n \in 0..MaxLen}}
OptionSets == {Obj(<<>>), Obj1("includeProjection", Bool(TRUE))}

\* ---- filters for convertFindQuery
Fields == {"status", "age"}
Literals ==
    {Str("active"), Str(""), Num(42), Num(0), Bool(TRUE), Bool(FALSE),
     Date("2024-01-01")}
ListElements == {Str("mongodb"), Str("database")}
Lists == {Arr(e) : e \in UNION {[1..n -> ListElements] : n \in 0..MaxList}}

\* one key of an Operator Set with its operand
OpEntries ==
    {KV("$eq", Num(25)), KV("$ne", Str("deleted")), KV("$gt", Num(100)),
     KV("$gte", Num(18)), KV("$lt", Num(65)), KV("$lte", Num(100)),
     KV("$in", Arr(<<Str("a"), Str("b")>>)),
     KV("$nin", Arr(<<Str("a"), Str("b")>>)),
     KV("$exists", Bool(TRUE)), KV("$exists", Bool(FALSE)),
     KV("$regex", Str("john")), KV("$regex", Num(5)),
     KV("$options", Str("i")), KV("$options", Str("")),
     KV("$not", Obj1("$lt", Num(18))),
     KV("$not", Obj(<<KV("$gte", Num(18)), KV("$size", Num(2))>>)),
     KV("$not", Null),
     KV("$size", Num(2)), KV("$invalidFieldOp", Str("value")),
     KV("city", Str("Paris"))}
DistinctKeys(entries) ==
    \A a, b \in 1..Len(entries) : a # b => entries[a].k # entries[b].k
OperatorSets ==
    {Obj(e) : e \in UNION {{q \in [1..n -> OpEntries] : DistinctKeys(q)}
                             : n \in 0..MaxOps}}

FieldValues == Literals \cup {Null} \cup Lists \cup OperatorSets

\* filters nested under a logical operator
SubFilters ==
    {Obj(<<>>),
     Obj1("status", Str("active")),
     Obj1("age", Null),
     Obj(<<KV("status", Str("active")), KV("age", Num(42))>>),
     Obj1("age", Obj(<<KV("$gte", Num(18)), KV("$lt", Num(65))>>)),
     Obj1("age", Obj1("$size", Num(2))),
     Obj1("$or", Arr(<<Obj1("status", Str("active")), Obj1("age", Num(42))>>)),
     Obj1("$nor", Arr(<<Obj1("age", Null)>>)),
     Obj1("$not", Obj1("status", Str("active"))),
     Obj1("$invalidOp", Arr(<<Obj1("status", Str("active"))>>))}
SubFilterLists ==
    {Arr(e) : e \in UNION {[1..n -> SubFilters] : n \in 0..MaxSubs}}

\* values for the second field of a two-field filter
SecondValues ==
    {Num(42), Null, Obj1("$gte", Num(18)),
     Obj(<<KV("$gte", Num(18)), KV("$lt", Num(65))>>),
     Obj1("$size", Num(2)), Arr(<<Str("mongodb"), Str("database")>>)}

Filters ==
    {Obj(<<>>)}
    \cup {Obj1(f, v) : f \in Fields, v \in FieldValues}
    \cup {Obj(<<KV("status", v), KV("age", w)>>) :
             v \in SecondValues \cup {Str("active")}, w \in SecondValues}
    \cup {Obj1(op, subs) : op \in {"$and", "$or", "$nor"}, subs \in SubFilterLists}
    \cup {Obj(<<KV("status", Str("active")), KV(op, subs)>>) :
             op \in {"$and", "$or", "$nor", "$not", "$invalidOp"},
             subs \in {Arr(<<Obj1("age", Num(42))>>),
                       Arr(<<Obj1("$not", Obj1("age", Num(42)))>>)}}
    \cup {Obj1("$not", Obj1("status", Str("active"))),
          Obj1("$invalidOp", Arr(<<Obj1("status", Str("active"))>>)),
          Obj1("$and", Str("active"))}

\* the options argument of convertFindQuery
SortOptions ==
    {Undef, Obj1("createdAt", Num(-1)),
     Obj(<<KV("category", Num(1)), KV("price", Num(-1))>>),
     Obj(<<KV("price", Num(1)), KV("score", Obj1("$meta", Str("textScore")))>>)}
FindOptions ==
    {Obj(<<KV("projection", p), KV("sort", srt), KV("skip", sk), KV("limit", li)>>) :
        p \in {Undef, Obj(<<KV("name", Num(1)), KV("email", Num(1))>>)},
        srt \in SortOptions,
        sk \in {Undef, Num(0), Num(20)},
        li \in {Undef, Num(0), Num(10)}}

\* filters that are converted together with every FindOptions value
DirectiveFilters ==
    {Obj(<<>>), Obj1("status", Str("active")),
     Obj(<<KV("status", Str("active")), KV("age", Obj1("$gte", Num(18)))>>),
     Obj1("age", Obj1("$size", Num(2))),
     Obj1("$not", Obj1("status", Str("active")))}

FindCalls ==
    (Filters \X {Obj(<<>>)}) \cup (DirectiveFilters \X FindOptions)

\* ---- a converter that is called several times
Indexes == {"default", "products"}
CallPipelines ==
    {Arr(<<>>),
     Arr(<<MatchActive, SortNumeric, Limit2>>),
     Arr(<<Translated, MatchActive, Skip1>>),
     Arr(<<Unwind, MatchNot>>),
     Arr(<<Project, Null>>),
     Str("invalid")}
PipelineCalls ==
    (CallPipelines \X {Obj(<<>>)})
    \cup {<<Arr(<<MatchActive, Project, Limit2>>), Obj1("includeProjection", Bool(TRUE))>>}
RepeatedFindCalls ==
    {<<Obj1("status", Str("active")), Obj(<<>>)>>,
     <<Obj1("age", Obj(<<KV("$gte", Num(18)), KV("$size", Num(2))>>)),
       Obj(<<KV("sort", Obj1("createdAt", Num(-1))), KV("limit", Num(10))>>)>>,
     <<Obj1("$not", Obj1("status", Str("active"))), Obj(<<>>)>>}
TextSearchCalls ==
    {<<Str("mongodb"), Undef, Undef>>,
     <<Str("mongodb"), Str("title"), Obj1("fuzzy", Obj1("maxEdits", Num(1)))>>}
AutocompleteCalls == {<<Str("mon"), Str("title"), Undef>>}

\* variant: a typeof check instead of Array.isArray
ArrayIsArray_typeof(v) == TypeofObject(v)

ArrayIsArray(v) == v.t = "arr"

\* ------------------------------------------------------------------- state
VARIABLES
    indexName,      \* this.indexName
    pipeline,       \* argument of convertAggregationPipeline
    query,          \* argument of convertFindQuery
    options,        \* its options argument
    pc,             \* "call", "loop", "done" (returned) or "thrown"
    i,              \* loop index, from 0
    newPipeline,    \* the pipeline being built; the return value at "done"
    optimization,   \* result of the last optimizePipelineSequence call
    foldAt,         \* newPipeline.length when its searchStage was pushed
    warnings,       \* console.warn calls so far
    method,         \* the public method being called
    path,           \* path argument of createTextSearch / createAutocomplete
    history         \* the calls completed on this converter, oldest first

vars == <<indexName, pipeline, query, options, pc, i, newPipeline, optimization,
          foldAt, warnings, method, path, history>>

\* the converter's field, the arguments of the call and the earlier calls:
\* nothing in a call assigns to them
callFrame == <<indexName, pipeline, query, options, method, path, history>>

Init ==
    /\ indexName = "default"
    /\ pipeline \in Pipelines \cup NonArrays
    /\ query = Undef
    /\ options \in OptionSets
    /\ pc = "call"
    /\ i = 0
    /\ newPipeline = <<>>
    /\ optimization = NoOptimization
    /\ foldAt = 0
    /\ warnings = <<>>
    /\ method = "convertAggregationPipeline"
    /\ path = Undef
    /\ history = <<>>

length == Len(pipeline.kids)
stageAt(j) == pipeline.kids[j + 1].v

\* line 75: if (!Array.isArray(pipeline)) throw
RejectNotArray ==
    /\ pc = "call"
    /\ ~ArrayIsArray(pipeline)
    /\ pc' = "thrown"
    /\ UNCHANGED <<callFrame, i, newPipeline, optimization,
                   foldAt, warnings>>

\* variant: the output array is kept from call to call and not allocated at
\* line 77
EnterLoop_keep ==
    /\ pc = "call"
    /\ ArrayIsArray(pipeline)
    /\ pc' = "loop"
    /\ i' = 0
    /\ UNCHANGED <<callFrame, newPipeline, optimization, foldAt, warnings>>

EnterLoop ==
    /\ pc = "call"
    /\ ArrayIsArray(pipeline)
    /\ pc' = "loop"
    /\ i' = 0
    /\ newPipeline' = <<>>
    /\ UNCHANGED <<callFrame, optimization, foldAt, warnings>>

\* line 85 reads stage.$match: a null element throws a TypeError
StageThrows ==
    /\ pc = "loop"
    /\ i < length
    /\ Nullish(stageAt(i))
    /\ pc' = "thrown"
    /\ UNCHANGED <<callFrame, i, newPipeline, optimization,
                   foldAt, warnings>>

\* lines 99-102: the branch taken when the optimization is not optimized
pushPlain(opt, searchStage) ==
    IF searchStage.err
    THEN /\ pc' = "thrown"
         /\ warnings' = searchStage.warn
         /\ optimization' = opt
         /\ UNCHANGED <<i, newPipeline, foldAt>>
    ELSE /\ newPipeline' = Append(newPipeline, searchStage.val)
         /\ i' = i + 1
         /\ optimization' = opt
         /\ warnings' = searchStage.warn
         /\ pc' = "loop"
         /\ UNCHANGED foldAt

\* lines 89-103, given the result opt of optimizePipelineSequence
pushOptimization(opt) ==
    IF opt.err
    THEN /\ pc' = "thrown"
         /\ warnings' = opt.warn
         /\ UNCHANGED <<i, newPipeline, optimization, foldAt>>
    ELSE IF opt.optimized
    THEN /\ newPipeline' = (newPipeline \o <<opt.searchStage>>)
                              \o opt.remainingStages
         /\ i' = opt.nextIndex
         /\ optimization' = opt
         /\ foldAt' = Len(newPipeline)
         /\ warnings' = opt.warn
         /\ pc' = "loop"
    ELSE pushPlain(opt, convertQueryToSearch(indexName,
                                             Get(stageAt(i), "$match"),
                                             opt.warn))

\* variant: the $match stage of the input array is overwritten with the
\* converted stage
MatchStage_inPlace ==
    /\ pc = "loop"
    /\ i < length
    /\ ~Nullish(stageAt(i))
    /\ Truthy(Get(stageAt(i), "$match"))
    /\ \E opt \in {optimizePipelineSequence(indexName, Items(pipeline), i,
                                              options, warnings)} :
         pushOptimization(opt)
    /\ pipeline' = [pipeline EXCEPT !.kids[i + 1].v =
                                       Obj1("$search", Get(stageAt(i), "$match"))]
    /\ UNCHANGED <<indexName, query, options, method, path, history>>

\* one loop iteration on a stage with a truthy $match
MatchStage ==
    /\ pc = "loop"
    /\ i < length
    /\ ~Nullish(stageAt(i))
    /\ Truthy(Get(stageAt(i), "$match"))
    /\ \E opt \in {optimizePipelineSequence(indexName, Items(pipeline), i,
                                              options, warnings)} :
         pushOptimization(opt)
    /\ UNCHANGED callFrame

\* variant: the else branch advances without pushing the stage
PassStage_skip ==
    /\ pc = "loop"
    /\ i < length
    /\ ~Nullish(stageAt(i))
    /\ ~Truthy(Get(stageAt(i), "$match"))
    /\ i' = i + 1
    /\ UNCHANGED <<callFrame, pc, newPipeline, optimization,
                   foldAt, warnings>>

\* one loop iteration on any other stage
PassStage ==
    /\ pc = "loop"
    /\ i < length
    /\ ~Nullish(stageAt(i))
    /\ ~Truthy(Get(stageAt(i), "$match"))
    /\ newPipeline' = Append(newPipeline, stageAt(i))
    /\ i' = i + 1
    /\ UNCHANGED <<callFrame, pc, optimization, foldAt,
                   warnings>>

\* the loop condition fails: return newPipeline
Return ==
    /\ pc = "loop"
    /\ ~(i < length)
    /\ pc' = "done"
    /\ UNCHANGED <<callFrame, i, newPipeline, optimization,
                   foldAt, warnings>>

Next ==
    \/ RejectNotArray
    \/ EnterLoop
    \/ StageThrows
    \/ MatchStage
    \/ PassStage
    \/ Return

Spec == Init /\ [][Next]_vars

\* the call runs to its end: the loop is not suspended between iterations
InitFair ==
    /\ Init
    /\ pipeline \in LoopPipelines \cup {Str("invalid")}
    /\ options = Obj(<<>>)
SpecFair == InitFair /\ [][Next]_vars /\ WF_vars(Next)

\* ---------------------------------------------- convertFindQuery as a call
InitFind ==
    /\ indexName = "default"
    /\ pipeline = Undef
    /\ \E call \in FindCalls : query = call[1] /\ options = call[2]
    /\ pc = "find"
    /\ i = 0
    /\ newPipeline = <<>>
    /\ optimization = NoOptimization
    /\ foldAt = 0
    /\ warnings = <<>>
    /\ method = "convertFindQuery"
    /\ path = Undef
    /\ history = <<>>

\* the call returns the pipeline or throws
finishFind(result) ==
    /\ pc' = IF result.err THEN "thrown" ELSE "done"
    /\ newPipeline' = IF result.err THEN <<>> ELSE result.val
    /\ warnings' = result.warn
    /\ UNCHANGED <<callFrame, i, optimization, foldAt>>

\* lines 20-42: the branch with options.sort
FindWithSort ==
    /\ pc = "find"
    /\ Truthy(Get(options, "sort"))
    /\ finishFind(convertFindQuery(indexName, query, options, warnings))

\* lines 43-64: the branch without options.sort
FindWithoutSort ==
    /\ pc = "find"
    /\ ~Truthy(Get(options, "sort"))
    /\ finishFind(convertFindQuery(indexName, query, options, warnings))

NextFind == FindWithSort \/ FindWithoutSort

SpecFind == InitFind /\ [][NextFind]_vars

\* ============================================================ properties
stages == Items(pipeline)
returned == pc = "done"
InputIsArray == pipeline.t = "arr"

IsStageObject(v) == v.t = "obj"
HasStage(v, key) == IsStageObject(v) /\ HasKey(v, key)
IsFoldable(v) ==
    \E key \in {"$match", "$sort", "$limit", "$skip", "$project"} : HasKey(v, key)
AllNumeric(sortSpec) ==
    /\ Len(sortSpec.kids) > 0
    /\ \A j \in 1..Len(sortSpec.kids) : sortSpec.kids[j].v.t = "num"
Count(seq, P(_)) == Cardinality({j \in 1..Len(seq) : P(seq[j])})
IsMatch(v) == HasStage(v, "$match")
IsSearch(v) == HasStage(v, "$search")
IsSort(v) == HasStage(v, "$sort")
IsSkip(v) == HasStage(v, "$skip")
IsLimit(v) == HasStage(v, "$limit")
IsProject(v) == HasStage(v, "$project")

\* what the last fold appended to newPipeline
foldOutput == SubSeq(newPipeline, foldAt + 1, Len(newPipeline))
folded == optimization.optimized
tailLength == length - optimization.nextIndex
Captured(stage) == IF Truthy(stage) THEN 1 ELSE 0

\* C1 (as stated): when the last scan ended at index k before the end of the
\* pipeline, the stages from k on close the output, unchanged and in order,
\* and appear exactly once: what follows the fold's $search stage is only the
\* captured $limit/$skip stages and those stages.
C1_Stated ==
    (/\ returned /\ folded /\ optimization.nextIndex < length
     /\ \A j \in 1..length : IsStageObject(stages[j])
     /\ ~Truthy(optimization.projectStage) /\ ~Truthy(optimization.sortStage))
    => /\ SubSeq(newPipeline, Len(newPipeline) - tailLength + 1,
                 Len(newPipeline)) = slice(stages, optimization.nextIndex)
       /\ Len(foldOutput) = 1 + Captured(optimization.limitStage)
                              + Captured(optimization.skipStage) + tailLength

\* C2 (as stated): the output of a pipeline of stage objects has no $match
\* stage, and as many $search stages as the input has $match stages.
C2_Stated ==
    (returned /\ \A j \in 1..length : IsStageObject(stages[j]))
    => /\ \A j \in 1..Len(newPipeline) : ~IsMatch(newPipeline[j])
       /\ Count(newPipeline, IsSearch) = Count(stages, IsMatch)

\* C3 (as stated): the returned pipeline is never longer than the input.
C3_Stated ==
    (returned /\ \A j \in 1..length : IsStageObject(stages[j]))
    => Len(newPipeline) <= length

\* C4: [$match, $sort with numeric directions only, $limit] returns exactly
\* the $search stage with sort {field: {order: direction}} for every sort
\* field, in the sort's key order, followed by a $limit stage with the
\* original value; no $sort and no $skip stage is returned.
IsMatchSortLimit ==
    /\ InputIsArray /\ length = 3
    /\ IsMatch(stages[1])
    /\ IsSort(stages[2]) /\ AllNumeric(Get(stages[2], "$sort"))
    /\ IsLimit(stages[3]) /\ Truthy(Get(stages[3], "$limit"))
ExpectedSort(sortSpec) ==
    Obj([j \in 1..Len(sortSpec.kids) |->
            KV(sortSpec.kids[j].k, Obj1("order", sortSpec.kids[j].v))])
C5_Stated ==
    (/\ returned /\ length = 3
     /\ IsMatch(stages[1])
     /\ IsStageObject(stages[2]) /\ ~IsFoldable(stages[2])
     /\ IsSort(stages[3]))
    => /\ Len(newPipeline) = 3
       /\ IsSearch(newPipeline[1])
       /\ ~HasKey(Get(newPipeline[1], "$search"), "sort")
       /\ newPipeline[2] = stages[2]
       /\ newPipeline[3] = stages[3]

\* C6: when a fold captured both a $limit and a $skip stage, the $limit stage
\* directly follows the fold's $search stage in the output and the $skip
\* stage directly follows the $limit stage, whatever their input order.
BothCaptured ==
    folded /\ Truthy(optimization.limitStage) /\ Truthy(optimization.skipStage)
RECURSIVE paginate(_, _)
paginate(pipe, docs) ==
    IF pipe = <<>> THEN docs
    ELSE LET stage == Head(pipe)
             n == IF IsSkip(stage) THEN Get(stage, "$skip").n
                  ELSE Get(stage, "$limit").n
             out == IF IsSkip(stage) THEN SubSeq(docs, n + 1, Len(docs))
                    ELSE IF IsLimit(stage)
                    THEN SubSeq(docs, 1, IF n < Len(docs) THEN n ELSE Len(docs))
                    ELSE docs
         IN paginate(Tail(pipe), out)
Documents(n) == [d \in 1..n |-> d]

\* C7 (as stated): for [$match, $sort, $skip s, $limit l] the returned
\* pipeline's $skip/$limit stages select the same documents as $skip s then
\* $limit l, for every sequence of matching documents.
C7_Stated ==
    (/\ returned /\ length = 4
     /\ IsMatch(stages[1]) /\ IsSort(stages[2])
     /\ IsSkip(stages[3]) /\ IsLimit(stages[4]))
    => \A n \in 0..NumDocs :
           paginate(newPipeline, Documents(n)) = paginate(stages, Documents(n))

\* C8 (as stated): when the captured $sort has a non-numeric direction, a
\* diagnostic is emitted, the $search stage carries no sort, and the $sort
\* stage is still in the output after the $search stage.
C8_Stated ==
    (/\ returned /\ folded /\ IsSort(optimization.sortStage)
     /\ ~AllNumeric(Get(optimization.sortStage, "$sort")))
    => /\ \E j \in 1..Len(warnings) : warnings[j] = W_SORT
       /\ ~HasKey(Get(newPipeline[foldAt + 1], "$search"), "sort")
       /\ \E j \in 2..Len(foldOutput) : foldOutput[j] = optimization.sortStage

\* C9 (as stated): with includeProjection, a captured $project stage is in
\* the output after the fold's $search stage.
C9_Stated ==
    (returned /\ folded /\ IsProject(optimization.projectStage))
    => \E j \in 2..Len(foldOutput) : foldOutput[j] = optimization.projectStage

\* C10 (as stated): an input that is not a sequence of stage objects never
\* yields a returned pipeline.
C10_Stated ==
    returned
    => InputIsArray /\ \A j \in 1..length : IsStageObject(stages[j])

\* C10 (amended): an input that is not an array makes the call throw before
\* anything is built and no pipeline is returned; an empty array is accepted
\* and the returned pipeline is empty.
C10_NotArrayThrows ==
    /\ (~InputIsArray /\ pc # "call")
           => (pc = "thrown" /\ newPipeline = <<>>)
    /\ (pipeline = Arr(<<>>) /\ pc # "call")
           => (pc \in {"loop", "done"} /\ newPipeline = <<>>)
    /\ returned => InputIsArray
C10_Witness == pc = "thrown" /\ pipeline = Str("invalid")

\* C11: a pipeline without any $match stage is returned stage for stage, in
\* the same order and unmodified.
NoMatchStage == InputIsArray /\ \A j \in 1..length : ~HasKey(stages[j], "$match")
C11_NoMatchUnchanged == (returned /\ NoMatchStage) => newPipeline = stages
C11_Witness ==
    /\ returned /\ NoMatchStage /\ length >= 2
    /\ IsSearch(stages[1]) /\ IsSort(stages[2])

\* --------------------------------------------- either method, called once
InitBoth == Init \/ InitFind
NextBoth == Next \/ NextFind
SpecBoth == InitBoth /\ [][NextBoth]_vars

\* ------------------------------------ one converter, called several times
InitCalls ==
    /\ indexName \in Indexes
    /\ pipeline = Undef
    /\ query = Undef
    /\ options = Undef
    /\ pc = "idle"
    /\ i = 0
    /\ newPipeline = <<>>
    /\ optimization = NoOptimization
    /\ foldAt = 0
    /\ warnings = <<>>
    /\ method = "constructor"
    /\ path = Undef
    /\ history = <<>>

\* a call starts with fresh locals; newPipeline keeps the last result until
\* the method assigns it
enter(name, at) ==
    /\ pc = "idle"
    /\ method' = name
    /\ pc' = at
    /\ i' = 0
    /\ optimization' = NoOptimization
    /\ foldAt' = 0
    /\ warnings' = <<>>
    /\ UNCHANGED <<indexName, history>>

CallConvertAggregationPipeline ==
    /\ enter("convertAggregationPipeline", "call")
    /\ \E call \in PipelineCalls : pipeline' = call[1] /\ options' = call[2]
    /\ query' = Undef
    /\ path' = Undef
    /\ UNCHANGED newPipeline

CallConvertFindQuery ==
    /\ enter("convertFindQuery", "find")
    /\ \E call \in RepeatedFindCalls : query' = call[1] /\ options' = call[2]
    /\ pipeline' = Undef
    /\ path' = Undef
    /\ UNCHANGED newPipeline

\* the utility methods return their stage at once
CallCreateTextSearch ==
    /\ enter("createTextSearch", "done")
    /\ \E call \in TextSearchCalls :
         /\ query' = call[1] /\ path' = call[2] /\ options' = call[3]
         /\ newPipeline' = <<createTextSearch(indexName, call[1], call[2], call[3])>>
    /\ pipeline' = Undef

CallCreateAutocomplete ==
    /\ enter("createAutocomplete", "done")
    /\ \E call \in AutocompleteCalls :
         /\ query' = call[1] /\ path' = call[2] /\ options' = call[3]
         /\ newPipeline' = <<createAutocomplete(indexName, call[1], call[2], call[3])>>
    /\ pipeline' = Undef

\* what a finished call was given and what came of it
completed ==
    [method |-> method, pipeline |-> pipeline, query |-> query,
     options |-> options, path |-> path, threw |-> pc = "thrown",
     value |-> IF pc = "thrown" THEN <<>> ELSE newPipeline]

\* the caller has the result; the converter is ready for the next call
Complete ==
    /\ pc \in {"done", "thrown"}
    /\ Len(history) < MaxCalls
    /\ history' = Append(history, completed)
    /\ pc' = "idle"
    /\ UNCHANGED <<indexName, pipeline, query, options, i, newPipeline,
                   optimization, foldAt, warnings, method, path>>

NextCalls ==
    \/ CallConvertAggregationPipeline
    \/ CallConvertFindQuery
    \/ CallCreateTextSearch
    \/ CallCreateAutocomplete
    \/ Next
    \/ NextFind
    \/ Complete

SpecCalls == InitCalls /\ [][NextCalls]_vars

\* ------------------------------------------- properties of convertFindQuery
NoDirectives == options = Obj(<<>>)
IsFieldKey(key) == key \notin DollarKeys
SingleField == query.t = "obj" /\ Len(query.kids) = 1 /\ IsFieldKey(query.kids[1].k)
theField == query.kids[1].k
theValue == query.kids[1].v
finished == pc \in {"done", "thrown"}
\* the $search stage with one inlined clause and nothing else
SearchWith(index, key, body) ==
    Obj1("$search", Obj(<<KV("index", Str(index)), KV(key, body)>>))
PathValue(f, v) == Obj(<<KV("path", Str(f)), KV("value", v)>>)

\* C12: for a filter {f: v} with v a string, number, boolean or date and no
\* directives, the call returns one stage, the $search stage with the index
\* and the inlined clause equals {path: f, value: v}.
IsLiteral(v) == v.t \in {"str", "num", "bool", "date"}
C12_LiteralEquality ==
    (finished /\ NoDirectives /\ SingleField /\ IsLiteral(theValue))
    => /\ pc = "done"
       /\ newPipeline
            = <<SearchWith(indexName, "equals", PathValue(theField, theValue))>>
C12_Witness ==
    /\ pc = "done" /\ NoDirectives /\ SingleField
    /\ theValue = Date("2024-01-01")
    /\ Len(newPipeline) = 1

\* C13: every field given as null, at the top level or in a sub-expression of
\* $and / $or / $nor at any depth, becomes one compound clause with
\* minimumShouldMatch 1 and the two branches equals {path, value: null} and
\* compound {mustNot: [exists {path}]}; the equality is never emitted outside
\* such a clause.
IsJunction(key) == key \in {"$and", "$or", "$nor"}
ExpectedNullClause(f) ==
    Obj1("compound", Obj(<<
        KV("should", Arr(<<
            Obj1("equals", PathValue(f, Null)),
            Obj1("compound", Obj1("mustNot", Arr(<<Obj1("exists", Obj1("path", Str(f)))>>)))>>)),
        KV("minimumShouldMatch", Num(1))>>))
RECURSIVE NullFieldsIn(_)
NullFieldsIn(node) ==
    IF node.t = "arr"
    THEN LET RECURSIVE sum(_)
             sum(j) == IF j = 0 THEN 0 ELSE sum(j - 1) + NullFieldsIn(node.kids[j].v)
         IN sum(Len(node.kids))
    ELSE IF node.t = "obj"
    THEN LET RECURSIVE sum(_)
             sum(j) ==
                 IF j = 0 THEN 0
                 ELSE sum(j - 1)
                      + (IF IsJunction(node.kids[j].k)
                         THEN NullFieldsIn(node.kids[j].v)
                         ELSE IF IsFieldKey(node.kids[j].k) /\ node.kids[j].v.t = "null"
                         THEN 1 ELSE 0)
         IN sum(Len(node.kids))
    ELSE 0
\* occurrences of the whole clause, and of its equality, in a tree of values
RECURSIVE NullClausesIn(_)
NullClausesIn(node) ==
    (IF \E f \in Fields : Obj1("compound", node) = ExpectedNullClause(f) THEN 1 ELSE 0)
    + (LET RECURSIVE sum(_)
           sum(j) == IF j = 0 THEN 0 ELSE sum(j - 1) + NullClausesIn(node.kids[j].v)
       IN sum(Len(node.kids)))
RECURSIVE NullEqualitiesIn(_)
NullEqualitiesIn(node) ==
    (IF \E f \in Fields : node = PathValue(f, Null) THEN 1 ELSE 0)
    + (LET RECURSIVE sum(_)
           sum(j) == IF j = 0 THEN 0 ELSE sum(j - 1) + NullEqualitiesIn(node.kids[j].v)
       IN sum(Len(node.kids)))
BoundOf(key) ==
    CASE key = "$gt" -> "gt" [] key = "$gte" -> "gte"
      [] key = "$lt" -> "lt" [] key = "$lte" -> "lte"
IsBoundKey(key) == key \in {"$gt", "$gte", "$lt", "$lte"}
OnlyBounds(set) ==
    /\ set.t = "obj" /\ Len(set.kids) >= 1
    /\ \A j \in 1..Len(set.kids) : IsBoundKey(set.kids[j].k)
ExpectedRange(f, entry) ==
    Obj(<<KV("path", Str(f)), KV(BoundOf(entry.k), entry.v)>>)
C14_OneRangePerBound ==
    (finished /\ NoDirectives /\ SingleField /\ OnlyBounds(theValue))
    => /\ pc = "done"
       /\ newPipeline =
            IF Len(theValue.kids) = 1
            THEN <<SearchWith(indexName, "range",
                              ExpectedRange(theField, theValue.kids[1]))>>
            ELSE <<SearchWith(indexName, "compound", Obj1("must",
                     Arr([j \in 1..Len(theValue.kids) |->
                            Obj1("range", ExpectedRange(theField, theValue.kids[j]))])))>>
C14_Witness ==
    /\ pc = "done" /\ NoDirectives /\ SingleField
    /\ theValue = Obj(<<KV("$lt", Num(65)), KV("$gte", Num(18))>>)
    /\ Len(Get(Get(Get(newPipeline[1], "$search"), "compound"), "must").kids) = 2

\* C19: a list value is translated by its length: the empty list to
\* compound {mustNot: [exists {path}]}, a list of one element to the equality
\* with that element, a longer list to compound.must of one equality per
\* element in order; a diagnostic is emitted for the longer list, exactly
\* one, and for no list of length 0 or 1.
ExpectedList(f, list) ==
    IF Len(list.kids) = 0
    THEN SearchWith(indexName, "compound",
                    Obj1("mustNot", Arr(<<Obj1("exists", Obj1("path", Str(f)))>>)))
    ELSE IF Len(list.kids) = 1
    THEN SearchWith(indexName, "equals", PathValue(f, list.kids[1].v))
    ELSE SearchWith(indexName, "compound", Obj1("must",
           Arr([j \in 1..Len(list.kids) |->
                  Obj1("equals", PathValue(f, list.kids[j].v))])))
C19_ListByLength ==
    (finished /\ NoDirectives /\ SingleField /\ theValue.t = "arr")
    => /\ pc = "done"
       /\ newPipeline = <<ExpectedList(theField, theValue)>>
       /\ Len(warnings) = (IF Len(theValue.kids) >= 2 THEN 1 ELSE 0)
C19_Witness ==
    /\ pc = "done" /\ NoDirectives /\ SingleField
    /\ theValue = Arr(<<Str("database"), Str("mongodb")>>)
    /\ warnings = <<W_ARRAY>>

\* C15: a filter that is one of $and, $or, $nor over a list of sub-expressions
\* gives one compound clause: must for $and, should with minimumShouldMatch 1
\* for $or, mustNot for $nor. Its list is the concatenation, in order, of the
\* clause lists of the sub-expressions; n sub-expressions of one field each
\* with a literal or null value give n branches, a sub-expression of one field
\* whose Operator Set yields k clauses gives k branches.
SingleJunction ==
    /\ query.t = "obj" /\ Len(query.kids) = 1
    /\ IsJunction(query.kids[1].k) /\ theValue.t = "arr"
ExpectedCompound(operator, list) ==
    CASE operator = "$and" -> Obj1("must", Arr(list))
      [] operator = "$or" ->
            Obj(<<KV("should", Arr(list)), KV("minimumShouldMatch", Num(1))>>)
      [] operator = "$nor" -> Obj1("mustNot", Arr(list))
RECURSIVE ClausesOfFirst(_, _)
ClausesOfFirst(subs, n) ==
    IF n = 0 THEN <<>>
    ELSE ClausesOfFirst(subs, n - 1) \o convertQuery(subs.kids[n].v, <<>>).val
ListKey(operator) ==
    CASE operator = "$and" -> "must" [] operator = "$or" -> "should"
      [] operator = "$nor" -> "mustNot"
\* the list of the compound clause at the top of the returned $search stage
BranchList ==
    Get(Get(Get(newPipeline[1], "$search"), "compound"), ListKey(theField)).kids
IsSingleField(sub) ==
    sub.t = "obj" /\ Len(sub.kids) = 1 /\ IsFieldKey(sub.kids[1].k)
IsPlainField(sub) ==
    IsSingleField(sub) /\ (IsLiteral(sub.kids[1].v) \/ sub.kids[1].v.t = "null")
ExpectedPlain(sub) ==
    IF sub.kids[1].v.t = "null" THEN ExpectedNullClause(sub.kids[1].k)
    ELSE Obj1("equals", PathValue(sub.kids[1].k, sub.kids[1].v))
\* as stated: n branches for n sub-expressions of one field each
C15_Stated ==
    (pc = "done" /\ NoDirectives /\ SingleJunction
       /\ \A j \in 1..Len(theValue.kids) : IsSingleField(theValue.kids[j].v))
    => Len(BranchList) = Len(theValue.kids)
C15_OneCompoundConcatenated ==
    (pc = "done" /\ NoDirectives /\ SingleJunction)
    => /\ newPipeline =
            <<SearchWith(indexName, "compound",
                ExpectedCompound(theField, ClausesOfFirst(theValue, Len(theValue.kids))))>>
       /\ (\A j \in 1..Len(theValue.kids) : IsPlainField(theValue.kids[j].v))
          => BranchList = [j \in 1..Len(theValue.kids) |->
                             KV(ToString(j - 1), ExpectedPlain(theValue.kids[j].v))]
C15_Witness ==
    /\ pc = "done" /\ NoDirectives
    /\ query = Obj1("$or", Arr(<<Obj1("status", Str("active")), Obj1("age", Null)>>))
    /\ Len(BranchList) = 2

\* C16: a filter that holds $not, or any $-key other than $and / $or / $nor,
\* among its own keys or among the keys of a sub-expression listed under
\* $and / $or / $nor at any depth, makes convertFindQuery throw and return
\* nothing; a pipeline with such a filter in a $match stage is never returned
\* by convertAggregationPipeline.
RECURSIVE UnsupportedLogicalKeyIn(_)
UnsupportedLogicalKeyIn(filter) ==
    /\ filter.t = "obj"
    /\ \E j \in 1..Len(filter.kids) :
         /\ ~IsFieldKey(filter.kids[j].k)
         /\ \/ ~IsJunction(filter.kids[j].k)
            \/ /\ filter.kids[j].v.t = "arr"
               /\ \E e \in 1..Len(filter.kids[j].v.kids) :
                    UnsupportedLogicalKeyIn(filter.kids[j].v.kids[e].v)
C16_UnsupportedLogicalKeyThrows ==
    /\ (pc # "find" /\ UnsupportedLogicalKeyIn(query))
       => (pc = "thrown" /\ newPipeline = <<>>)
    /\ (InputIsArray /\ \E j \in 1..length :
                          UnsupportedLogicalKeyIn(Get(stages[j], "$match")))
       => pc # "done"
C16_Witness ==
    /\ pc = "thrown"
    /\ query = Obj(<<KV("status", Str("active")),
                     KV("$and", Arr(<<Obj1("$not", Obj1("age", Num(42)))>>))>>)
    /\ newPipeline = <<>>
\* the same in a pipeline: the stages before the $match were passed, then the
\* call threw
C16_WitnessPipeline ==
    /\ pc = "thrown" /\ InputIsArray /\ length >= 2
    /\ stages[1] = Unwind /\ stages[2] = MatchNot

\* C17: in the Operator Set of a filter's only field, where the pattern of
\* $regex, if present, is a string and the operand of $not, if present, is
\* such an Operator Set: every key that is not a case of
\* convertFieldOperators is skipped with one diagnostic, in the set itself
\* and in the set wrapped by $not, and the call does not throw; every other
\* key is converted as if the skipped ones were absent, to one clause each
\* except $options, which gives none. One key that gives a clause and one
\* skipped key make one clause and, unless the first is a $not wrapping
\* skipped keys of its own, one diagnostic.
CaseLabels ==
    {"$eq", "$ne", "$gt", "$gte", "$lt", "$lte", "$in", "$nin", "$exists",
     "$regex", "$options", "$not"}
IsOperatorSet(v) == v.t = "obj"
RECURSIVE UnrecognizedKeysIn(_)
UnrecognizedKeysIn(set) ==
    LET RECURSIVE sum(_)
        sum(j) ==
            IF j = 0 THEN 0
            ELSE sum(j - 1)
                 + (IF set.kids[j].k \notin CaseLabels THEN 1
                    ELSE IF set.kids[j].k = "$not"
                    THEN UnrecognizedKeysIn(set.kids[j].v) ELSE 0)
    IN sum(Len(set.kids))
RECURSIVE WellFormedOperands(_)
WellFormedOperands(set) ==
    /\ IsOperatorSet(set)
    /\ \A j \in 1..Len(set.kids) :
         /\ set.kids[j].k = "$regex" => set.kids[j].v.t = "str"
         /\ set.kids[j].k = "$not" => WellFormedOperands(set.kids[j].v)
ClauseKeysIn(set) ==
    Cardinality({j \in 1..Len(set.kids) : set.kids[j].k \in CaseLabels \ {"$options"}})
\* the number of clauses assembled into the returned $search stage, for a
\* filter of one field with an Operator Set
ClauseCount ==
    IF newPipeline[1] = SearchWith(indexName, "exists", Obj1("path", Str("_id")))
    THEN 0
    ELSE IF HasKey(Get(Get(newPipeline[1], "$search"), "compound"), "must")
    THEN Len(Get(Get(Get(newPipeline[1], "$search"), "compound"), "must").kids)
    ELSE 1
OneAndOne(set) ==
    /\ Len(set.kids) = 2
    /\ Cardinality({j \in 1..2 : set.kids[j].k \in CaseLabels}) = 1
\* as stated: one recognized and one unrecognized key give one clause and one
\* diagnostic, and no error
C17_Stated ==
    (finished /\ NoDirectives /\ SingleField /\ IsOperatorSet(theValue)
       /\ OneAndOne(theValue))
    => (pc = "done" /\ ClauseCount = 1 /\ Len(warnings) = 1)
C17_UnrecognizedKeySkipped ==
    (finished /\ NoDirectives /\ SingleField /\ WellFormedOperands(theValue))
    => /\ pc = "done"
       /\ Len(warnings) = UnrecognizedKeysIn(theValue)
       /\ \A j \in 1..Len(warnings) : warnings[j] = W_OPERATOR
       /\ ClauseCount = ClauseKeysIn(theValue)
       /\ (OneAndOne(theValue) /\ ~HasKey(theValue, "$options"))
          => /\ ClauseCount = 1
             /\ Len(warnings) = 1 + UnrecognizedKeysIn(Get(theValue, "$not"))
C17_Witness ==
    /\ pc = "done" /\ NoDirectives /\ SingleField
    /\ theValue = Obj(<<KV("$invalidFieldOp", Str("value")), KV("$gte", Num(18))>>)
    /\ newPipeline = <<SearchWith(indexName, "range",
                                  Obj(<<KV("path", Str(theField)), KV("gte", Num(18))>>))>>
    /\ warnings = <<W_OPERATOR>>

\* C18: without directives, a filter whose keys convert to the clause list cs
\* is returned as one $search stage with the index and one clause: exists
\* {path: '_id'} when cs is empty (the empty filter included), the only
\* clause of cs itself when it has one, compound.must of cs in order when it
\* has more; the call does not throw in the first case.
ExpectedAssembly(index, cs) ==
    IF Len(cs) = 0
    THEN SearchWith(index, "exists", Obj1("path", Str("_id")))
    ELSE IF Len(cs) = 1
    THEN Obj1("$search", Obj(<<KV("index", Str(index))>> \o cs[1].kids))
    ELSE SearchWith(index, "compound", Obj1("must", Arr(cs)))
Assembled(clauses) ==
    ~clauses.err
    => /\ pc = "done"
       /\ newPipeline = <<ExpectedAssembly(indexName, clauses.val)>>
       /\ Len(Get(newPipeline[1], "$search").kids) = 2
TwoLiterals ==
    /\ query.t = "obj" /\ Len(query.kids) = 2
    /\ \A j \in 1..2 : IsFieldKey(query.kids[j].k) /\ IsLiteral(query.kids[j].v)
C18_RequestAssembly ==
    (finished /\ NoDirectives /\ query.t = "obj")
    => /\ Assembled(convertQuery(query, <<>>))
       /\ query = Obj(<<>>)
          => newPipeline = <<SearchWith(indexName, "exists", Obj1("path", Str("_id")))>>
       /\ (SingleField /\ theValue = Obj1("$size", Num(2)))
          => newPipeline = <<SearchWith(indexName, "exists", Obj1("path", Str("_id")))>>
       /\ TwoLiterals
          => newPipeline = <<SearchWith(indexName, "compound", Obj1("must",
                Arr([j \in 1..2 |-> Obj1("equals",
                       PathValue(query.kids[j].k, query.kids[j].v))])))>>
C18_Witness ==
    /\ pc = "done" /\ NoDirectives
    /\ query = Obj(<<KV("status", Str("active")), KV("age", Obj1("$size", Num(2)))>>)
    /\ newPipeline = <<SearchWith(indexName, "equals", PathValue("status", Str("active")))>>
    /\ warnings = <<W_OPERATOR>>

\* C20: a returned pipeline starts with its only $search stage, the one the
\* filter alone translates to, with the sort option added to it as
\* {field: {order: direction}} when every direction is a number; after it
\* come a $project, a $skip and a $limit stage, in this order, each present
\* exactly when its option was given with a value other than 0, and holding
\* that value. No $sort stage is returned, and the $search stage has no
\* limit or skip.
Given(option) ==
    /\ HasKey(options, option)
    /\ Get(options, option).t # "undef"
    /\ Get(options, option) # Num(0)
StageIfGiven(option, stage) ==
    IF Given(option) THEN <<Obj1(stage, Get(options, option))>> ELSE <<>>
ExpectedDirectives ==
    (StageIfGiven("projection", "$project") \o StageIfGiven("skip", "$skip"))
        \o StageIfGiven("limit", "$limit")
NumericDirections(sortSpec) ==
    /\ sortSpec.t = "obj" /\ Len(sortSpec.kids) > 0
    /\ \A j \in 1..Len(sortSpec.kids) : sortSpec.kids[j].v.t = "num"
ExpectedOrder(sortSpec) ==
    Obj([j \in 1..Len(sortSpec.kids) |->
           KV(sortSpec.kids[j].k, Obj1("order", sortSpec.kids[j].v))])
WithSortOption(stage) ==
    IF NumericDirections(Get(options, "sort"))
    THEN Obj1("$search", Obj(Get(stage, "$search").kids
                             \o <<KV("sort", ExpectedOrder(Get(options, "sort")))>>))
    ELSE stage
SearchFirst(clauses) ==
    newPipeline[1] = WithSortOption(ExpectedAssembly(indexName, clauses.val))
C20_SearchThenDirectives ==
    (pc = "done" /\ query.t = "obj")
    => /\ Len(newPipeline) >= 1
       /\ SearchFirst(convertQuery(query, <<>>))
       /\ SubSeq(newPipeline, 2, Len(newPipeline)) = ExpectedDirectives
       /\ \A j \in 1..Len(newPipeline) :
            /\ ~HasKey(newPipeline[j], "$sort")
            /\ HasKey(newPipeline[j], "$search") <=> j = 1
       /\ ~HasKey(Get(newPipeline[1], "$search"), "limit")
       /\ ~HasKey(Get(newPipeline[1], "$search"), "skip")
C20_Witness ==
    /\ pc = "done"
    /\ query = Obj1("status", Str("active"))
    /\ Get(options, "sort") = Obj1("createdAt", Num(-1))
    /\ Len(newPipeline) = 4
    /\ Get(Get(newPipeline[1], "$search"), "sort")
         = Obj1("createdAt", Obj1("order", Num(-1)))
    /\ newPipeline[3] = Obj1("$skip", Num(20))
    /\ newPipeline[4] = Obj1("$limit", Num(10))

\* C22 (as stated): for a filter built from literal field equalities and
\* $and / $or / $nor over non-empty lists of such filters, sub-expressions
\* of several keys included, a document satisfies the clause of the returned
\* $search stage (must: all, should with minimumShouldMatch 1: at least one,
\* mustNot: none) exactly when it satisfies the filter.
Records ==
    [Fields -> {Str("active"), Str("inactive"), Num(42), Num(7)}]
RECURSIVE EqualityFilter(_)
EqualityFilter(filter) ==
    /\ filter.t = "obj"
    /\ \A j \in 1..Len(filter.kids) :
         \/ IsFieldKey(filter.kids[j].k) /\ IsLiteral(filter.kids[j].v)
         \/ /\ IsJunction(filter.kids[j].k)
            /\ filter.kids[j].v.t = "arr"
            /\ Len(filter.kids[j].v.kids) > 0
            /\ \A e \in 1..Len(filter.kids[j].v.kids) :
                 /\ Len(filter.kids[j].v.kids[e].v.kids) > 0
                 /\ EqualityFilter(filter.kids[j].v.kids[e].v)
\* the filter language's own meaning
RECURSIVE Satisfies(_, _)
Satisfies(doc, filter) ==
    \A j \in 1..Len(filter.kids) :
        LET key == filter.kids[j].k
            value == filter.kids[j].v
        IN CASE key = "$and" ->
                  \A e \in 1..Len(value.kids) : Satisfies(doc, value.kids[e].v)
             [] key = "$or" ->
                  \E e \in 1..Len(value.kids) : Satisfies(doc, value.kids[e].v)
             [] key = "$nor" ->
                  ~\E e \in 1..Len(value.kids) : Satisfies(doc, value.kids[e].v)
             [] OTHER -> doc[key] = value
\* the meaning of an equals or compound clause; every document has an _id
RECURSIVE SatisfiesClause(_, _)
SatisfiesClause(doc, clause) ==
    LET operator == clause.kids[1].k
        body == clause.kids[1].v
        each(list) == {SatisfiesClause(doc, list.kids[e].v) : e \in 1..Len(list.kids)}
    IN CASE operator = "equals" -> doc[Get(body, "path").s] = Get(body, "value")
         [] operator = "exists" ->
              Get(body, "path").s \in (Fields \cup {"_id"})
         [] operator = "compound" ->
              /\ HasKey(body, "must") => FALSE \notin each(Get(body, "must"))
              /\ HasKey(body, "mustNot") => TRUE \notin each(Get(body, "mustNot"))
              /\ HasKey(body, "should") => TRUE \in each(Get(body, "should"))
SatisfiesSearch(doc, stage) ==
    SatisfiesClause(doc, Obj(<<Get(stage, "$search").kids[2]>>))
C22_Stated ==
    (pc = "done" /\ NoDirectives /\ EqualityFilter(query))
    => \A doc \in Records :
           SatisfiesSearch(doc, newPipeline[1]) <=> Satisfies(doc, query)

\* C24: in the pipeline a call is building or has returned, every $search
\* stage holds the index, one operator clause and at most a sort after them,
\* so no limit, skip or projection; after a fold, the fold's $search stage is
\* followed by a $limit stage with the captured $limit's value and a $skip
\* stage with the captured $skip's value; convertFindQuery puts its limit and
\* skip options, when not 0, in stages after the $search stage.
OperatorNames == {"equals", "range", "in", "exists", "regex", "compound"}
SearchShape(search) ==
    /\ Len(search.kids) \in {2, 3}
    /\ search.kids[1].k = "index"
    /\ search.kids[2].k \in OperatorNames
    /\ Len(search.kids) = 3 => search.kids[3].k = "sort"
FollowsSearch(seq, name, value) ==
    \E k \in 2..Len(seq) : seq[k] = Obj1(name, value)
OnlyPattern(set) ==
    /\ IsOperatorSet(set) /\ Len(set.kids) >= 1
    /\ \A j \in 1..Len(set.kids) : set.kids[j].k \in {"$regex", "$options"}
    /\ HasKey(set, "$regex") => Get(set, "$regex").t = "str"
ExpectedRegex(f, set) ==
    IF HasKey(set, "$options") /\ Get(set, "$options") # Str("")
    THEN Obj(<<KV("query", Get(set, "$regex")), KV("path", Str(f)),
               KV("options", Get(set, "$options"))>>)
    ELSE Obj(<<KV("query", Get(set, "$regex")), KV("path", Str(f))>>)
RECURSIVE RegexClausesIn(_)
RegexClausesIn(node) ==
    LET RECURSIVE sum(_)
        sum(j) ==
            IF j = 0 THEN 0
            ELSE sum(j - 1) + RegexClausesIn(node.kids[j].v)
                 + (IF node.kids[j].k = "regex" THEN 1 ELSE 0)
    IN sum(Len(node.kids))
BadPattern(set) ==
    /\ IsOperatorSet(set)
    /\ HasKey(set, "$regex") /\ Get(set, "$regex").t # "str"
    /\ \A j \in 1..Len(set.kids) :
         set.kids[j].k = "$not" => WellFormedOperands(set.kids[j].v)
C26_Stated ==
    (finished /\ NoDirectives /\ SingleField /\ BadPattern(theValue))
    => /\ pc = "done"
       /\ RegexClausesIn(newPipeline[1]) = 0
       /\ ClauseCount = ClauseKeysIn(theValue) - 1
       /\ Len(warnings) = 1 + UnrecognizedKeysIn(theValue)

\* C27: in the Operator Set of a filter's only field, a $not whose operand
\* is an Operator Set gives one clause, compound {mustNot: list}, where list
\* is what convertFieldOperators returns for the operand and the same field;
\* it stands at the place of the $not key among the clauses of the set, and
\* the call does not throw.
\* the k-th clause assembled into the returned $search stage
ClauseAt(k) ==
    IF ClauseCount = 1 THEN Obj(<<Get(newPipeline[1], "$search").kids[2]>>)
    ELSE Get(Get(Get(newPipeline[1], "$search"), "compound"), "must").kids[k].v
\* the place of the clause of key j among the clauses of the set
PlaceOf(set, j) ==
    Cardinality({e \in 1..j : set.kids[e].k \in CaseLabels \ {"$options"}})
ExpectedNot(f, operand) ==
    Obj1("compound", Obj1("mustNot", Arr(convertFieldOperators(f, operand, <<>>).val)))
C27_FieldNot ==
    (finished /\ NoDirectives /\ SingleField /\ WellFormedOperands(theValue)
       /\ HasKey(theValue, "$not"))
    => /\ pc = "done"
       /\ \A j \in 1..Len(theValue.kids) :
            theValue.kids[j].k = "$not"
            => ClauseAt(PlaceOf(theValue, j)) = ExpectedNot(theField, theValue.kids[j].v)
       /\ theValue = Obj1("$not", Obj1("$lt", Num(18)))
          => newPipeline = <<SearchWith(indexName, "compound", Obj1("mustNot",
                 Arr(<<Obj1("range", Obj(<<KV("path", Str(theField)),
                                             KV("lt", Num(18))>>))>>)))>>
C27_Witness ==
    /\ pc = "done" /\ NoDirectives /\ SingleField
    /\ theValue = Obj(<<KV("$gt", Num(100)),
                        KV("$not", Obj(<<KV("$gte", Num(18)), KV("$size", Num(2))>>))>>)
    /\ ClauseCount = 2
    /\ warnings = <<W_OPERATOR>>

\* C28: in the Operator Set of a filter's only field f, each of $eq, $ne,
\* $in, $nin, $exists gives one clause, at its place among the clauses of
\* the set, with path f and the operand as given: equals for $eq, compound
\* {mustNot: [equals]} for $ne, in for $in, compound {mustNot: [in]} for
\* $nin, exists for a true $exists, compound {mustNot: [exists]} for a false
\* one.
NoneOf(clause) == Obj1("compound", Obj1("mustNot", Arr(<<clause>>)))
ExpectedOperator(f, entry) ==
    CASE entry.k = "$eq" -> Obj1("equals", PathValue(f, entry.v))
      [] entry.k = "$ne" -> NoneOf(Obj1("equals", PathValue(f, entry.v)))
      [] entry.k = "$in" -> Obj1("in", PathValue(f, entry.v))
      [] entry.k = "$nin" -> NoneOf(Obj1("in", PathValue(f, entry.v)))
      [] entry.k = "$exists" ->
            IF entry.v = Bool(TRUE) THEN Obj1("exists", Obj1("path", Str(f)))
            ELSE NoneOf(Obj1("exists", Obj1("path", Str(f))))
ComparisonKeys == {"$eq", "$ne", "$in", "$nin", "$exists"}
C28_ComparisonKeys ==
    (finished /\ NoDirectives /\ SingleField /\ WellFormedOperands(theValue))
    => /\ pc = "done"
       /\ \A j \in 1..Len(theValue.kids) :
            theValue.kids[j].k \in ComparisonKeys
            => ClauseAt(PlaceOf(theValue, j)) = ExpectedOperator(theField, theValue.kids[j])
C28_Witness ==
    /\ pc = "done" /\ NoDirectives /\ SingleField
    /\ theValue = Obj(<<KV("$nin", Arr(<<Str("a"), Str("b")>>)),
                        KV("$exists", Bool(FALSE))>>)
    /\ ClauseCount = 2

\* ----------------------------------------- properties of a called converter
\* a stage of the output that is a stage of the input pipeline
PassedThrough(stage) ==
    pipeline.t = "arr" /\ \E k \in 1..Len(pipeline.kids) : pipeline.kids[k].v = stage
IndexOf(stage) == Get(Get(stage, "$search"), "index")

\* C21: no step of any call of convertFindQuery, convertAggregationPipeline,
\* createTextSearch or createAutocomplete changes indexName, and every
\* $search stage a call builds (every one of the output that is not a stage
\* of the input), while the call is building its output and when it has
\* returned it, has index equal to indexName, whatever calls came before.
C21_IndexFixed ==
    /\ [](pc \in {"loop", "done"}
          => \A j \in 1..Len(newPipeline) :
               (HasKey(newPipeline[j], "$search") /\ ~PassedThrough(newPipeline[j]))
               => IndexOf(newPipeline[j]) = Str(indexName))
    /\ [][indexName' = indexName]_vars
C21_Witness ==
    /\ indexName = "products" /\ Len(history) = 2
    /\ history[1].method = "convertAggregationPipeline" /\ history[1].threw
    /\ history[2].method = "convertFindQuery"
    /\ method = "createTextSearch" /\ pc = "done"
    /\ IndexOf(newPipeline[1]) = Str("products")

\* C23: two calls of convertFindQuery or convertAggregationPipeline on the
\* converter with equal arguments end the same way, both throwing or both
\* returning equal pipelines, whatever calls, failed ones included, were made
\* between and before them.
Translating(call) == call.method \in {"convertFindQuery", "convertAggregationPipeline"}
SameArguments(a, b) ==
    /\ Translating(a) /\ a.method = b.method
    /\ a.pipeline = b.pipeline /\ a.query = b.query /\ a.options = b.options
SameOutcome(a, b) == a.threw = b.threw /\ a.value = b.value
C23_Deterministic ==
    /\ \A a, b \in 1..Len(history) :
         SameArguments(history[a], history[b]) => SameOutcome(history[a], history[b])
    /\ pc \in {"done", "thrown"}
       => \A a \in 1..Len(history) :
            SameArguments(history[a], completed) => SameOutcome(history[a], completed)
C23_Witness ==
    /\ Len(history) = 2 /\ pc = "done"
    /\ history[1].method = "convertAggregationPipeline"
    /\ Len(history[1].value) = 2
    /\ history[2].threw
    /\ SameArguments(history[1], completed)
    /\ newPipeline = history[1].value

\* C29: no step of convertFindQuery or convertAggregationPipeline, whether
\* the call returns or throws, changes the filter, the options or the
\* pipeline it was given, any stage of it included; a stage without $match
\* is appended to the output as it is; the sort of a fold is in the new
\* $search stage only.
InCall == pc \in {"call", "loop", "find"}
C29_InputsUnmodified ==
    /\ [][InCall => (pipeline' = pipeline /\ query' = query /\ options' = options)]_vars
    /\ [][(pc = "loop" /\ i < length /\ ~Nullish(stageAt(i))
             /\ ~HasKey(stageAt(i), "$match"))
          => newPipeline' = newPipeline \o <<stageAt(i)>>]_vars
C29_Witness ==
    /\ pc = "done" /\ method = "convertAggregationPipeline" /\ folded
    /\ stages = <<MatchActive, SortNumeric, Unwind>>
    /\ HasKey(Get(newPipeline[1], "$search"), "sort")

\* C30: a call of convertAggregationPipeline ends, by returning or throwing:
\* every loop iteration that does not end the call leaves i greater than it
\* was, also after a fold, whose nextIndex the scan has moved past the
\* $match stage, and i never passes the length of the pipeline.
C30_Terminates ==
    /\ [][(pc = "loop" /\ pc' = "loop") => (i' > i /\ i' <= length)]_vars
    /\ <>(pc \in {"done", "thrown"})
C30_Witness ==
    /\ pc = "done" /\ folded /\ length = MaxLen
    /\ optimization.nextIndex = 2 /\ i = length
    /\ IsMatch(stages[1]) /\ IsSort(stages[2]) /\ stages[3] = Unwind

====
